---- MODULE Spec2Model ----
(***************************************************************************)
(* Term alignment and annotation weaving of pali-vinaya-notes              *)
(* (src/suttacentral.py): the sequence matcher find_sub_list, the overlap  *)
(* resolver and the phrase disambiguator of render_word_definitions, the   *)
(* weaving loop of render_rule, the file registry of write_md_file, the    *)
(* variant map of build_variant_map, the exceptions caught or let through  *)
(* while the sections of a rule are rendered, the comment footnotes of     *)
(* render_word_definition_file, and the definition-section scan of         *)
(* get_definition_section_from_vb_json.                                    *)
(*                                                                         *)
(* Indices are 0-based as in the Python source: the token at Python index  *)
(* i of a list s is s[i+1] here (operator At).  A location is a triple     *)
(* <<line, start, end>> with end inclusive.                                *)
(***************************************************************************)
EXTENDS Integers, Sequences, FiniteSets, TLC

\* ------------------------------------------------------------------ bounds
MaxLines == 2
MaxWords == 3
MaxPhraseLen == 2
MaxTerms == 2
MaxLocs == 3
MaxLabelWords == 4
MaxReadings == 2
MaxRules == 2
MaxSegments == 2
MaxDefinitionKeys == 3
MaxKeys == 4

\* Printed tokens.  "A" and "a" differ as printed but share a comparison key.
Tokens == {"a", "A", "x"}

\* ----------------------------------------------------------------- helpers
At(s, i) == s[i + 1]

Min(a, b) == IF a < b THEN a ELSE b

\* Python s[a:b] for 0 <= a
Slice(s, a, b) == SubSeq(s, a + 1, Min(b, Len(s)))

SeqsUpTo(S, lo, hi) == UNION {[1..n -> S] : n \in lo..hi}

RECURSIVE SumTo(_, _)
SumTo(lens, n) == IF n = 0 THEN 0 ELSE lens[n] + SumTo(lens, n - 1)

\* line lengths of a root text: 1..MaxLines lines, none empty, at most
\* MaxWords words in all
Shapes ==
  {lens \in SeqsUpTo(1..MaxWords, 1, MaxLines) : SumTo(lens, Len(lens)) <= MaxWords}

\* the text of shape lens whose words, read line by line, are flat
Unflatten(lens, flat) ==
  [i \in 1..Len(lens) |-> [j \in 1..lens[i] |-> flat[SumTo(lens, i - 1) + j]]]

\* every root text over the token set T
TextsOver(T) ==
  UNION {{Unflatten(lens, flat) : flat \in [1..SumTo(lens, Len(lens)) -> T]} :
           lens \in Shapes}

\* vnmutils.paliutils.sanitize: the comparison key of a printed token
sanitize(w) == IF w = "A" THEN "a" ELSE w

sanitize_all(ws) == [n \in 1..Len(ws) |-> sanitize(ws[n])]

Keys == {sanitize(w) : w \in Tokens}

\* ------------------------------------------------------------ find_sub_list
Returned(i) == [kind |-> "return", value |-> i]
Raised(e) == [kind |-> e, value |-> -1]

\* find_scan returning at the first position whose first token matches
RECURSIVE find_scan_first_token(_, _, _, _)
find_scan_first_token(sl, l, i, end) ==
  IF i > end THEN Raised("ValueError")
  ELSE IF At(l, i) # At(sl, 0) THEN find_scan_first_token(sl, l, i + 1, end)
  ELSE Returned(i)

\* the for loop of find_sub_list, from index i to end inclusive
RECURSIVE find_scan(_, _, _, _)
find_scan(sl, l, i, end) ==
  IF i > end THEN Raised("ValueError")
  ELSE IF At(l, i) # At(sl, 0) THEN find_scan(sl, l, i + 1, end)
  ELSE IF Slice(l, i, i + Len(sl)) = sl THEN Returned(i)
  ELSE find_scan(sl, l, i + 1, end)

find_sub_list(sl, l, start) ==
  LET sll == Len(sl)
      end == Len(l) - sll
  IN  IF ~(sll > 0 /\ end >= 0) THEN Raised("AssertionError")
      ELSE find_scan(sl, l, start, end)

\* -------------------------------------------------- match_terms_to_root_text
\* (vnmutils.paliutils; modelled from the Term Aligner of the specification)
NoLoc == <<-1, -1, -1>>

\* does needle occur in haystack at Python index i
MatchAt(needle, haystack, i) ==
  /\ i >= 0
  /\ i + Len(needle) <= Len(haystack)
  /\ \A n \in 1..Len(needle) : haystack[i + n] = needle[n]

\* first index >= offset where the phrase occurs in the line (by comparison
\* key), or -1
first_match(phrase, line, offset) ==
  LET hits == {i \in offset..Len(line) :
                 MatchAt(sanitize_all(phrase), sanitize_all(line), i)}
  IN  IF hits = {} \/ Len(phrase) = 0 THEN -1
      ELSE CHOOSE i \in hits : \A h \in hits : i <= h

\* one phrase: the current line from the cursor offset, then later lines from 0
RECURSIVE align_phrase(_, _, _, _)
align_phrase(phrase, root, ln, off) ==
  IF ln >= Len(root) THEN NoLoc
  ELSE LET i == first_match(phrase, At(root, ln), off)
       IN  IF i >= 0 THEN <<ln, i, i + Len(phrase) - 1>>
           ELSE align_phrase(phrase, root, ln + 1, 0)

\* align_terms searching with align_phrase_one_line
RECURSIVE align_terms_one_line(_, _, _, _, _, _)
align_terms_one_line(ts, root, n, ln, off, acc) ==
  IF n > Len(ts) THEN [locs |-> acc, err |-> "none"]
  ELSE LET i == IF ln < Len(root) THEN first_match(ts[n], At(root, ln), off) ELSE -1
       IN  IF i < 0 THEN [locs |-> acc, err |-> "AlignmentError"]
           ELSE align_terms_one_line(ts, root, n + 1, ln, i + Len(ts[n]),
                                     Append(acc, <<ln, i, i + Len(ts[n]) - 1>>))

\* align_terms leaving the cursor at the start of the match
RECURSIVE align_terms_no_advance(_, _, _, _, _, _)
align_terms_no_advance(ts, root, n, ln, off, acc) ==
  IF n > Len(ts) THEN [locs |-> acc, err |-> "none"]
  ELSE LET loc == align_phrase(ts[n], root, ln, off)
       IN  IF loc = NoLoc THEN [locs |-> acc, err |-> "AlignmentError"]
           ELSE align_terms_no_advance(ts, root, n + 1, loc[1], loc[2], Append(acc, loc))

RECURSIVE align_terms(_, _, _, _, _, _)
align_terms(ts, root, n, ln, off, acc) ==
  IF n > Len(ts) THEN [locs |-> acc, err |-> "none"]
  ELSE LET loc == align_phrase(ts[n], root, ln, off)
       IN  IF loc = NoLoc THEN [locs |-> acc, err |-> "AlignmentError"]
           ELSE align_terms(ts, root, n + 1, loc[1], loc[3] + 1, Append(acc, loc))

match_terms_to_root_text(ts, root) == align_terms(ts, root, 1, 0, 0, <<>>)

\* ---------------------------------------------------------- do_locs_overlap
\* do_locs_overlap taking neighbouring ranges for overlapping
do_locs_overlap_adjacent(loc1, loc2) ==
  IF loc1[1] # loc2[1] THEN FALSE
  ELSE LET a == IF loc1[2] > loc2[2] THEN loc2 ELSE loc1
           b == IF loc1[2] > loc2[2] THEN loc1 ELSE loc2
       IN  IF a[3] + 1 < b[2] THEN FALSE ELSE TRUE

\* do_locs_overlap missing ranges that share only one index
do_locs_overlap_strict(loc1, loc2) ==
  IF loc1[1] # loc2[1] THEN FALSE
  ELSE LET a == IF loc1[2] > loc2[2] THEN loc2 ELSE loc1
           b == IF loc1[2] > loc2[2] THEN loc1 ELSE loc2
       IN  IF a[3] <= b[2] THEN FALSE ELSE TRUE

\* do_locs_overlap comparing the arguments in the order given
do_locs_overlap_no_swap(la, lb) ==
  IF la[1] # lb[1] THEN FALSE
  ELSE IF la[3] < lb[2] THEN FALSE ELSE TRUE

do_locs_overlap(loc1, loc2) ==
  IF loc1[1] # loc2[1] THEN FALSE
  ELSE LET a == IF loc1[2] > loc2[2] THEN loc2 ELSE loc1
           b == IF loc1[2] > loc2[2] THEN loc1 ELSE loc2
       IN  IF a[3] < b[2] THEN FALSE ELSE TRUE

\* ------------------------------------ render_word_definitions: the resolver
\* resolve_scan keeping every location
RECURSIVE resolve_scan_no_merge(_, _, _)
resolve_scan_no_merge(tl, n, unique) ==
  IF n > Len(tl) THEN unique
  ELSE resolve_scan_no_merge(tl, n + 1, Append(unique, tl[n]))

\* the loop that builds unique_locs, from the n-th term location on
RECURSIVE resolve_scan(_, _, _)
resolve_scan(tl, n, unique) ==
  IF n > Len(tl) THEN unique
  ELSE IF ~(unique # <<>> /\ do_locs_overlap(tl[n], unique[Len(unique)]))
       THEN resolve_scan(tl, n + 1, Append(unique, tl[n]))
       ELSE resolve_scan(tl, n + 1, unique)

resolve_unique_locs(tl) == resolve_scan(tl, 1, <<>>)

Range(s) == {s[n] : n \in 1..Len(s)}

\* grouped_definitions; definition_refs[i] is written as its position n
group_of(loc, tl) ==
  LET idx == [n \in 1..Len(tl) |-> n]
      Hit(n) == do_locs_overlap(loc, tl[n])
  IN  SelectSeq(idx, Hit)

resolve_grouped_definitions(tl, ul) == [loc \in Range(ul) |-> group_of(loc, tl)]

\* --------------------------------- render_word_definitions: the disambiguator
Put(f, key, v) == [x \in (DOMAIN f) \cup {key} |-> IF x = key THEN v ELSE f[x]]

EmptyMap == [x \in {} |-> 0]

\* ' '.join of the sanitized words of the location; n = 0 is the bare phrase,
\* n > 0 the phrase followed by " (n)"
root_phrase_at(root, loc) == sanitize_all(Slice(At(root, loc[1]), loc[2], loc[3] + 1))

Label(text, n) == [text |-> text, n |-> n]

\* one pass of the labelling loop for location loc.  st.order is the key
\* order of the root_phrases dict.
label_step(st, root, loc) ==
  LET bare == Label(root_phrase_at(root, loc), 0)
      IsBare(x) == st.root_phrases[x] = bare
      firsts == SelectSeq(st.order, IsBare)
      n == st.seen_phrases[bare]
      order2 == IF loc \in DOMAIN st.root_phrases THEN st.order
                ELSE Append(st.order, loc)
  IN  IF st.err # "none" THEN st
      ELSE IF bare \in DOMAIN st.seen_phrases
      THEN IF n = 2 /\ firsts = <<>>
           THEN [st EXCEPT !.err = "IndexError"]
           ELSE LET rp == IF n = 2
                          THEN Put(st.root_phrases, firsts[1], Label(bare.text, 1))
                          ELSE st.root_phrases
                    lab == Label(bare.text, n)
                IN  [root_phrases |-> Put(rp, loc, lab),
                     seen_phrases |-> Put(st.seen_phrases, lab, n + 1),
                     order |-> order2,
                     err |-> "none"]
      ELSE [root_phrases |-> Put(st.root_phrases, loc, bare),
            seen_phrases |-> Put(st.seen_phrases, bare, 2),
            order |-> order2,
            err |-> "none"]

RECURSIVE label_scan(_, _, _, _)
label_scan(st, root, ul, n) ==
  IF n > Len(ul) THEN st
  ELSE label_scan(label_step(st, root, ul[n]), root, ul, n + 1)

label_unique_locs(root, ul) ==
  label_scan([root_phrases |-> EmptyMap, seen_phrases |-> EmptyMap,
              order |-> <<>>, err |-> "none"], root, ul, 1)

\* word_defs_of naming a first occurrence's path by the bare label it had
\* before it was relabelled
word_defs_of_provisional(ul, rp) ==
  [n \in 1..Len(ul) |->
     [loc |-> ul[n],
      path |-> IF rp[ul[n]].n = 1 THEN Label(rp[ul[n]].text, 0) ELSE rp[ul[n]]]]

\* the (loc, filepath) list returned; the path is named by the label
word_defs_of(ul, rp) == [n \in 1..Len(ul) |-> [loc |-> ul[n], path |-> rp[ul[n]]]]

\* ------------------------------------------------- render_rule: the weaver
\* what is appended to rendered_root, piece by piece
NoPath == Label(<<>>, -1)
Piece(t, w, n, path) == [t |-> t, w |-> w, n |-> n, path |-> path]
LineStart == Piece("nl", "", 0, NoPath)         \* "\n> "
LinkOpen == Piece("open", "", 0, NoPath)        \* "["
Word(w) == Piece("word", w, 0, NoPath)
LinkClose(path) == Piece("close", "", 0, path)  \* abs_path_to_obsidian_link_text
Footnote(n) == Piece("fn", "", n, NoPath)       \* "[^n]"
Superscript(n) == Piece("sup", "", n, NoPath)   \* superscript_number(n)
Space == Piece("sp", "", 0, NoPath)

\* get_def taking the next definition to be in scope on every line
get_def_any_line(wd, k, i) ==
  LET has == k < Len(wd)
  IN  [def_in_scope |-> has,
       start_of_link |-> IF has THEN At(wd, k).loc[2] ELSE -1,
       end_of_link |-> IF has THEN At(wd, k).loc[3] ELSE -1,
       path |-> IF has THEN At(wd, k).path ELSE NoPath]

\* _get_def: None is written as -1 for the indices
get_def(wd, k, i) ==
  LET has == k < Len(wd)
      in_scope == has /\ At(wd, k).loc[1] = i
  IN  [def_in_scope |-> in_scope,
       start_of_link |-> IF in_scope THEN At(wd, k).loc[2] ELSE -1,
       end_of_link |-> IF in_scope THEN At(wd, k).loc[3] ELSE -1,
       path |-> IF has THEN At(wd, k).path ELSE NoPath]

\* marker_number taken before the footnote counts
marker_number_next(footnotes) == Len(footnotes) + 1

\* len(footnotes), the number written into a marker
marker_number(footnotes) == Len(footnotes)

\* inner_marker taking the link to begin after its start word
inner_marker_after_start(d, j, footnotes) ==
  LET overlaps_link == d.def_in_scope /\ d.start_of_link < j /\ j < d.end_of_link
  IN  IF overlaps_link THEN Superscript(marker_number(footnotes))
      ELSE Footnote(marker_number(footnotes))

\* the marker of a variant that is not at a link's end
inner_marker(d, j, footnotes) ==
  LET overlaps_link == d.def_in_scope /\ d.start_of_link <= j /\ j < d.end_of_link
  IN  IF overlaps_link THEN Superscript(marker_number(footnotes))
      ELSE Footnote(marker_number(footnotes))

\* link_end_pieces with the marker put before the link close
link_end_pieces_marker_first(d, has_variant, footnotes) ==
  (IF has_variant THEN <<Footnote(Len(footnotes))>> ELSE <<>>) \o
  <<LinkClose(d.path)>>

\* what follows the word at a link's end
link_end_pieces(d, has_variant, footnotes) ==
  <<LinkClose(d.path)>> \o
  (IF has_variant THEN <<Footnote(marker_number(footnotes))>> ELSE <<>>)

\* word_gap putting a space after the last word too
word_gap_always(line, j) == <<Space>>

\* the space between words: none after the last word of the line
word_gap(line, j) == IF j < Len(line) - 1 THEN <<Space>> ELSE <<>>

\* one pass of the inner loop: word j of line i.  st = [k, footnotes, out];
\* vmap is the set of word indexes that build_variant_map gave for the line.
weave_word(st, wd, line, vmap, i, j) ==
  LET d == get_def(wd, st.k, i)
      has_variant == j \in vmap
      opened == IF j = d.start_of_link THEN <<LinkOpen>> ELSE <<>>
      fn == IF has_variant THEN Append(st.footnotes, <<i, j>>) ELSE st.footnotes
      after == IF j = d.end_of_link THEN link_end_pieces(d, has_variant, fn)
               ELSE IF has_variant THEN <<inner_marker(d, j, fn)>>
               ELSE <<>>
      space == word_gap(line, j)
  IN  [k |-> IF j = d.end_of_link THEN st.k + 1 ELSE st.k,
       footnotes |-> fn,
       out |-> st.out \o opened \o <<Word(At(line, j))>> \o after \o space]

RECURSIVE weave_words(_, _, _, _, _, _)
weave_words(st, wd, line, vmap, i, j) ==
  IF j >= Len(line) THEN st
  ELSE weave_words(weave_word(st, wd, line, vmap, i, j), wd, line, vmap, i, j + 1)

\* one pass of the outer loop: line i
weave_line(st, wd, root, vmaps, i) ==
  weave_words([st EXCEPT !.out = Append(st.out, LineStart)],
              wd, At(root, i), At(vmaps, i), i, 0)

\* ------------------------------------------------------------ write_md_file
\* a path is <<folder, stem>>
Folders == {"pm", "defs"}
Stems == {"Rule", "rule", "other"}

\* str.lower() on the stems
Lower(stem) == IF stem = "Rule" THEN "rule" ELSE stem

\* write_md_file comparing the stem as it is spelled
write_md_file_exact_stem(reserved, files, paths, rule_file, start_scuid, end_scuid) ==
  IF rule_file[2] \in reserved
  THEN [reserved |-> reserved, files |-> files, paths |-> paths,
        outcome |-> "Exception"]
  ELSE [reserved |-> reserved \cup {rule_file[2]},
        files |-> Append(files, rule_file),
        paths |-> Append(paths, <<start_scuid, end_scuid, rule_file>>),
        outcome |-> "ok"]

\* reserved is PREVIOUSLY_WRITTEN_FILES, files the write_text calls so far,
\* paths the SCUID_SEGMENT_PATHS.add calls so far
write_md_file(reserved, files, paths, rule_file, start_scuid, end_scuid) ==
  LET fname == Lower(rule_file[2])
  IN  IF fname \in reserved
      THEN [reserved |-> reserved, files |-> files, paths |-> paths,
            outcome |-> "Exception"]
      ELSE [reserved |-> reserved \cup {fname},
            files |-> Append(files, rule_file),
            paths |-> Append(paths, <<start_scuid, end_scuid, rule_file>>),
            outcome |-> "ok"]

\* -------------------------------------------------------- build_variant_map
\* The variant text of a line, split on "; " and " | ", is a list of segments:
\* a reading "A -> B", written by the words of A, or a segment without an
\* arrow, written <<>>.  The empty list stands for a line without variant text.
ContinuationSegment == <<>>

\* list_variants: a segment without an arrow is joined to the reading before it
RECURSIVE join_segments(_, _, _)
join_segments(segs, n, acc) ==
  IF n > Len(segs) THEN [list |-> acc, err |-> "none"]
  ELSE IF segs[n] # ContinuationSegment
       THEN join_segments(segs, n + 1,
                          Append(acc, [orig |-> segs[n], n |-> Len(acc) + 1, more |-> 0]))
       ELSE IF acc = <<>> THEN [list |-> acc, err |-> "IndexError"]
            ELSE join_segments(segs, n + 1,
                               [acc EXCEPT ![Len(acc)].more = acc[Len(acc)].more + 1])

\* the loop over list_variants: each reading is stored under the index where
\* find_sub_list finds its original form in the sanitized line
RECURSIVE place_variants(_, _, _, _)
place_variants(list, sanitized_line, n, vmap) ==
  IF n > Len(list) THEN [map |-> vmap, err |-> "none"]
  ELSE LET r == find_sub_list(sanitize_all(list[n].orig), sanitized_line, 0)
       IN  IF r.kind = "ValueError" THEN [map |-> vmap, err |-> "Exception"]
           ELSE IF r.kind # "return" THEN [map |-> vmap, err |-> r.kind]
           ELSE place_variants(list, sanitized_line, n + 1, Put(vmap, r.value, list[n]))

build_variant_map(line, segs) ==
  IF segs = <<>> THEN [map |-> EmptyMap, err |-> "none"]
  ELSE LET j == join_segments(segs, 1, <<>>)
       IN  IF j.err # "none" THEN [map |-> EmptyMap, err |-> j.err]
           ELSE place_variants(j.list, sanitize_all(line), 1, EmptyMap)

\* ------------------------------------- render_rule: lookups and sections
\* What a rule's data holds, as far as these steps read it: how many html
\* segments open a permutations section (cakka), how many translation segments
\* contain 'Non-offenses', whether the non-offenses heading opens the section
\* (anapatti), and for each segment of that section whether its translation
\* and its root text exist.  Each operator returns the exceptions raised on
\* the way (raised), the parts rendered (out) and the exception that left it
\* (err, "none" when it returned).
Outcome(raised_here, out, e) == [raised |-> raised_here, out |-> out, err |-> e]

\* get_keys_where_text_contains, get_key_where_translation_contains
lookup_error(count, single) ==
  IF count = "none" THEN "ValueError"
  ELSE IF single /\ count = "many" THEN "Exception"
  ELSE "none"

\* render_permutations_for_rule letting the lookup's ValueError through
render_permutations_for_rule_uncaught(json) ==
  IF lookup_error(json.cakka, FALSE) = "ValueError"
  THEN Outcome({<<"cakka lookup", "ValueError">>}, {}, "ValueError")
  ELSE IF json.cakka = "many"
  THEN Outcome({<<"cakka sections", "Exception">>}, {}, "Exception")
  ELSE LET e == lookup_error(json.nonoffenses, TRUE)
       IN  IF e # "none" THEN Outcome({<<"nonoffenses lookup", e>>}, {}, e)
           ELSE Outcome({}, {<<0, "permutations">>}, "none")

render_permutations_for_rule(json) ==
  IF lookup_error(json.cakka, FALSE) = "ValueError"
  THEN Outcome({<<"cakka lookup", "ValueError">>}, {}, "none")
  ELSE IF json.cakka = "many"
  THEN Outcome({<<"cakka sections", "Exception">>}, {}, "Exception")
  ELSE LET e == lookup_error(json.nonoffenses, TRUE)
       IN  IF e # "none" THEN Outcome({<<"nonoffenses lookup", e>>}, {}, e)
           ELSE Outcome({}, {<<0, "permutations">>}, "none")

\* one pass of the while loop of render_nonoffenses: segment n
nonoffenses_segment(seg, n) ==
  Outcome((IF seg.translation THEN {} ELSE {<<"segment translation", "KeyError">>})
            \cup (IF seg.root THEN {} ELSE {<<"segment root", "KeyError">>}),
          (IF seg.translation THEN {<<n, "translation">>} ELSE {})
            \cup (IF seg.root THEN {<<n, "root">>} ELSE {}),
          "none")

RECURSIVE nonoffenses_segments(_, _, _)
nonoffenses_segments(segs, n, acc) ==
  IF n > Len(segs) THEN acc
  ELSE LET r == nonoffenses_segment(segs[n], n)
       IN  nonoffenses_segments(segs, n + 1,
             Outcome(acc.raised \cup r.raised, acc.out \cup r.out, "none"))

render_nonoffenses(json) ==
  IF ~json.anapatti
  THEN Outcome({<<"nonoffenses heading", "Exception">>}, {}, "Exception")
  ELSE LET r == nonoffenses_segments(json.segments, 1, Outcome({}, {}, "none"))
       IN  Outcome(r.raised, r.out \cup {<<0, "nonoffenses">>}, "none")

\* ------------------------------- render_word_definition_file: translation
\* A definition's segments are written by what each one has: a translation, a
\* translator comment.  A written line names the segment whose translation it
\* is and the segment whose comment is footnoted on it (0 for none).
RECURSIVE translation_lines(_, _, _, _)
translation_lines(segs, translation, i, acc) ==
  IF i >= Len(translation) THEN acc
  ELSE LET line_key == i + 1     \* definition_keys[i]
       IN  translation_lines(segs, translation, i + 1,
             Append(acc, [line |-> At(translation, i),
                          note |-> IF segs[line_key].comment THEN line_key ELSE 0]))

\* translation is the list of the segments that have one, in order
render_translation(segs) ==
  LET idx == [n \in 1..Len(segs) |-> n]
      translation == SelectSeq(idx, LAMBDA n : segs[n].translation)
  IN  translation_lines(segs, translation, 0, <<>>)

\* ------------------------------------- get_definition_section_from_vb_json
\* Segment keys are written 1, 2, 3, ...  The html of a segment is written by
\* its kind: "head" holds none of the tags the scan looks for, "term" is
\* <dt>{}</dt>, "term_start" is <dt>{} without its </dt>, "def" is
\* <dd>{}</dd>, "def_last" is <dd>{}</dd> followed by </section>.
HtmlKinds == {"head", "term", "term_start", "def", "def_last"}

\* tag in html
Has(html, tag) ==
  CASE tag = "</section>" -> html = "def_last"
    [] tag = "<dt>{}" -> html \in {"term", "term_start"}
    [] tag = "<dt>" -> html \in {"term", "term_start"}
    [] tag = "</dt>" -> html = "term"
    [] tag = "<dd>" -> html \in {"def", "def_last"}
    [] tag = "</dd>" -> html \in {"def", "def_last"}

\* term key -> final key of its manually given range
MANUAL_DEFINITION_RANGES == [t \in {3} |-> 4]

\* keys_order.index(x), for x in order
index_of(order, x) ==
  CHOOSE i \in 0..(Len(order) - 1) :
    At(order, i) = x /\ \A j \in 0..(i - 1) : At(order, j) # x

\* the inner while loops: step forward, collecting the keys stepped onto,
\* until the current key holds tag (or, for tag "", is the key final)
RECURSIVE scan_until(_, _, _, _, _, _)
scan_until(order, html, spot, tag, final, acc) ==
  LET cur == At(order, spot)
      stop == IF tag = "" THEN cur = final ELSE Has(html[cur], tag)
  IN  IF stop THEN [key_spot |-> spot, keys |-> acc, err |-> "none"]
      ELSE IF spot + 1 >= Len(order)
      THEN [key_spot |-> spot + 1, keys |-> acc, err |-> "IndexError"]
      ELSE scan_until(order, html, spot + 1, tag, final,
                      Append(acc, At(order, spot + 1)))

Scanned(k, spot, r, status, skip) ==
  [key |-> k, key_spot |-> spot, ret |-> r, status |-> status, skipped |-> skip]

\* scan_iteration putting the position of a skipped term back to where the
\* iteration began
scan_iteration_skip_to_start(order, html, k, spot, r) ==
  LET s1 == spot + 1
  IN  IF s1 >= Len(order) THEN Scanned(k, s1, r, "IndexError", FALSE)
      ELSE IF ~Has(html[At(order, s1)], "<dt>{}")
      THEN Scanned(At(order, s1), s1, r, "break", FALSE)
      ELSE LET t == scan_until(order, html, s1, "</dt>", 0, <<>>)
           IN  IF t.err # "none" THEN Scanned(k, t.key_spot, r, t.err, FALSE)
               ELSE LET d == scan_until(order, html, t.key_spot, "</dd>", 0, <<>>)
                    IN  IF d.err # "none" THEN Scanned(k, d.key_spot, r, d.err, FALSE)
                        ELSE IF d.keys # <<>> /\ Has(html[d.keys[1]], "<dt>")
                        THEN Scanned(k, spot, r, "continue", TRUE)
                        ELSE Scanned(At(order, d.key_spot), d.key_spot, r, "continue",
                                     FALSE)

\* one pass of the outer while loop, entered with '</section>' not in the
\* html of the current key k at position spot
scan_iteration(order, html, k, spot, r) ==
  LET s1 == spot + 1
  IN  IF s1 >= Len(order) THEN Scanned(k, s1, r, "IndexError", FALSE)
      ELSE IF ~Has(html[At(order, s1)], "<dt>{}")
      THEN Scanned(At(order, s1), s1, r, "break", FALSE)
      ELSE LET t == scan_until(order, html, s1, "</dt>", 0, <<>>)
           IN  IF t.err # "none" THEN Scanned(k, t.key_spot, r, t.err, FALSE)
               ELSE LET term_key == At(order, t.key_spot)
                        manual == term_key \in DOMAIN MANUAL_DEFINITION_RANGES
                        d == IF manual
                             THEN scan_until(order, html, t.key_spot, "",
                                             MANUAL_DEFINITION_RANGES[term_key], <<>>)
                             ELSE scan_until(order, html, t.key_spot, "</dd>", 0, <<>>)
                        entry == [term_key |-> term_key, definition_keys |-> d.keys]
                        done == Scanned(At(order, d.key_spot), d.key_spot,
                                        Append(r, entry), "continue", FALSE)
                    IN  IF d.err # "none" THEN Scanned(k, d.key_spot, r, d.err, FALSE)
                        ELSE IF manual THEN done
                        ELSE IF d.keys = <<>>
                        THEN Scanned(k, d.key_spot, r, "IndexError", FALSE)
                        ELSE IF Has(html[d.keys[1]], "<dd>") THEN done
                        ELSE IF Has(html[d.keys[1]], "<dt>")
                        THEN Scanned(term_key, index_of(order, term_key), r,
                                     "continue", TRUE)
                        ELSE Scanned(k, d.key_spot, r, "Exception", FALSE)

\* ------------------------------------------------------------------- state
VARIABLES
  pc,          \* position of the run
  sl, l, start, result,  \* a call of find_sub_list and what it gave
  root_text,   \* the rule's root text: lines of printed tokens
  terms,       \* the defining terms, in input order
  term_locations,        \* one location per term
  unique_locs, grouped_definitions,
  root_phrases,          \* location -> label
  word_defs,   \* what render_word_definitions returns
  err,         \* the exception that ended the run, or "none"
  variant_maps,          \* per line, the word indexes that carry a variant
  line_no, k, footnotes, rendered_root,  \* the weaving loop of render_rule
  PREVIOUSLY_WRITTEN_FILES,  \* lower-cased stems reserved in this run
  written_files,             \* the paths written, in order
  SCUID_SEGMENT_PATHS,       \* the identifier range -> path records, in order
  last_write,                \* the latest write_md_file call and how it ended
  loc1, loc2, overlap,       \* a call of do_locs_overlap and what it gave
  variant_line, variant_text, variant_map,  \* a call of build_variant_map
  vb_json,     \* what the run reads of the rule being rendered
  rule_no,     \* rules started so far
  raised,      \* every exception raised so far in the run: <<where, kind>>
  rendered,    \* the parts of the current rule rendered so far: <<segment, part>>
  definition_keys,       \* the segments of one definition: what each one has
  rendered_translation,  \* the translation lines written for them
  keys_order, html_text, \* what get_definition_section_from_vb_json reads
  key, key_spot, ret,    \* its position and its result so far
  skipped      \* whether it has skipped an undefined term

findVars == <<sl, l, start, result>>
unitVars == <<root_text, terms, term_locations, unique_locs,
              grouped_definitions, root_phrases, word_defs, err>>
weaveVars == <<variant_maps, line_no, k, footnotes, rendered_root>>
fileVars == <<PREVIOUSLY_WRITTEN_FILES, written_files, SCUID_SEGMENT_PATHS, last_write>>
overlapVars == <<loc1, loc2, overlap>>
variantVars == <<variant_line, variant_text, variant_map>>
runVars == <<vb_json, rule_no, raised, rendered>>
commentVars == <<definition_keys, rendered_translation>>
scanVars == <<keys_order, html_text, key, key_spot, ret, skipped>>
lateVars == <<commentVars, scanVars>>
auxVars == <<fileVars, overlapVars, variantVars, runVars, lateVars>>
vars == <<pc, findVars, unitVars, weaveVars, auxVars>>

NoResult == [kind |-> "none", value |-> -1]

FindIdle == sl = <<>> /\ l = <<>> /\ start = 0 /\ result = NoResult

WeaveIdle ==
  /\ variant_maps = <<>> /\ line_no = 0 /\ k = 0
  /\ footnotes = <<>> /\ rendered_root = <<>>

UnitIdle ==
  /\ root_text = <<>> /\ terms = <<>> /\ term_locations = <<>>
  /\ unique_locs = <<>> /\ grouped_definitions = EmptyMap
  /\ root_phrases = EmptyMap /\ word_defs = <<>> /\ err = "none"

NoWrite == [file |-> <<"", "">>, outcome |-> "none"]

FilesIdle ==
  /\ PREVIOUSLY_WRITTEN_FILES = {} /\ written_files = <<>>
  /\ SCUID_SEGMENT_PATHS = <<>> /\ last_write = NoWrite

OverlapIdle == loc1 = NoLoc /\ loc2 = NoLoc /\ overlap = FALSE

VariantsIdle == variant_line = <<>> /\ variant_text = <<>> /\ variant_map = EmptyMap

NoRule == [cakka |-> "none", nonoffenses |-> "none", anapatti |-> FALSE,
           segments |-> <<>>]

RunIdle == vb_json = NoRule /\ rule_no = 0 /\ raised = {} /\ rendered = {}

CommentsIdle == definition_keys = <<>> /\ rendered_translation = <<>>

ScanIdle ==
  /\ keys_order = <<>> /\ html_text = EmptyMap /\ key = 0
  /\ key_spot = 0 /\ ret = <<>> /\ skipped = FALSE

LateIdle == CommentsIdle /\ ScanIdle

AuxIdle == FilesIdle /\ OverlapIdle /\ VariantsIdle /\ RunIdle /\ LateIdle

\* ------------------------------------------------- the sequence matcher run
InitFind ==
  /\ pc = "find"
  /\ sl \in SeqsUpTo(Keys, 0, MaxPhraseLen)
  /\ l \in SeqsUpTo(Keys, 0, MaxWords)
  /\ start \in 0..(MaxWords + 1)
  /\ result = NoResult
  /\ UnitIdle /\ WeaveIdle /\ AuxIdle

CallFind ==
  /\ pc = "find"
  /\ result' = find_sub_list(sl, l, start)
  /\ pc' = "found"
  /\ UNCHANGED <<sl, l, start, unitVars, weaveVars, auxVars>>

NextFind == CallFind

SpecFind == InitFind /\ [][NextFind]_vars

\* ------------------------------------------------ render_word_definitions
Phrases == SeqsUpTo(Keys, 1, MaxPhraseLen)

Init ==
  /\ pc = "align"
  /\ root_text \in TextsOver(Keys)
  /\ terms \in SeqsUpTo(Phrases, 1, MaxTerms)
  /\ term_locations = <<>> /\ unique_locs = <<>>
  /\ grouped_definitions = EmptyMap /\ root_phrases = EmptyMap
  /\ word_defs = <<>> /\ err = "none"
  /\ FindIdle /\ WeaveIdle /\ AuxIdle

Align ==
  /\ pc = "align"
  /\ LET r == match_terms_to_root_text(terms, root_text)
     IN  IF r.err = "none"
         THEN /\ term_locations' = r.locs
              /\ pc' = "resolve"
              /\ err' = err
         ELSE /\ err' = r.err
              /\ pc' = "failed"
              /\ term_locations' = term_locations
  /\ UNCHANGED <<findVars, weaveVars, auxVars, root_text, terms, unique_locs, grouped_definitions,
                 root_phrases, word_defs>>

Resolve ==
  /\ pc = "resolve"
  /\ unique_locs' = resolve_unique_locs(term_locations)
  /\ grouped_definitions' =
       resolve_grouped_definitions(term_locations, resolve_unique_locs(term_locations))
  /\ pc' = "label"
  /\ UNCHANGED <<findVars, weaveVars, auxVars, root_text, terms, term_locations,
                 root_phrases, word_defs, err>>

Disambiguate ==
  /\ pc = "label"
  /\ LET st == label_unique_locs(root_text, unique_locs)
     IN  IF st.err = "none"
         THEN /\ root_phrases' = st.root_phrases
              /\ pc' = "labelled"
              /\ err' = err
         ELSE /\ err' = st.err
              /\ pc' = "failed"
              /\ root_phrases' = root_phrases
  /\ UNCHANGED <<findVars, weaveVars, auxVars, root_text, terms, term_locations,
                 unique_locs, grouped_definitions, word_defs>>

\* per line, the sets of word indexes a variant map may give
VariantMapsOf(root) ==
  {vm \in [1..Len(root) -> SUBSET (0..(MaxWords - 1))] :
     \A i \in 1..Len(root) : vm[i] \subseteq 0..(Len(root[i]) - 1)}

\* the (loc, filepath) list is built and returned to render_rule, which weaves
\* with the variant readings of the rule's lines
BuildWordDefs ==
  /\ pc = "labelled"
  /\ word_defs' = word_defs_of(unique_locs, root_phrases)
  /\ variant_maps' \in VariantMapsOf(root_text)
  /\ pc' = "weave"
  /\ UNCHANGED <<findVars, auxVars, root_text, terms, term_locations, unique_locs,
                 grouped_definitions, root_phrases, err, line_no, k, footnotes,
                 rendered_root>>

WeaveLine ==
  /\ pc = "weave"
  /\ line_no < Len(root_text)
  /\ LET st == weave_line([k |-> k, footnotes |-> footnotes, out |-> rendered_root],
                          word_defs, root_text, variant_maps, line_no)
     IN  /\ k' = st.k
         /\ footnotes' = st.footnotes
         /\ rendered_root' = st.out
  /\ line_no' = line_no + 1
  /\ pc' = IF line_no + 1 = Len(root_text) THEN "woven" ELSE "weave"
  /\ UNCHANGED <<findVars, unitVars, auxVars, variant_maps>>

Next == Align \/ Resolve \/ Disambiguate \/ BuildWordDefs \/ WeaveLine

Spec == Init /\ [][Next]_vars

\* ---------------------- the resolver and the disambiguator on any sorted input
LocsIn(root) ==
  {<<ln, s, e>> : ln \in 0..(Len(root) - 1), s \in 0..(MaxWords - 1),
                  e \in 0..(MaxWords - 1)}

InText(root, loc) ==
  /\ loc[1] \in 0..(Len(root) - 1)
  /\ 0 <= loc[2] /\ loc[2] <= loc[3] /\ loc[3] < Len(At(root, loc[1]))

\* non-decreasing by (line, start)
LocLeq(a, b) == a[1] < b[1] \/ (a[1] = b[1] /\ a[2] <= b[2])

LocLt(a, b) == a[1] < b[1] \/ (a[1] = b[1] /\ a[2] < b[2])

\* same line and the inclusive index ranges share an index
Intersect(a, b) ==
  /\ a[1] = b[1]
  /\ \E x \in a[2]..a[3] : x \in b[2]..b[3]

SortedLocs(tl) == \A n \in 1..(Len(tl) - 1) : LocLeq(tl[n], tl[n + 1])

InitResolve ==
  /\ pc = "resolve"
  /\ root_text \in TextsOver(Tokens)
  /\ term_locations \in
       {tl \in SeqsUpTo({x \in LocsIn(root_text) : InText(root_text, x)}, 1, MaxLocs) :
          SortedLocs(tl)}
  /\ terms = [n \in 1..Len(term_locations) |->
                Slice(At(root_text, term_locations[n][1]),
                      term_locations[n][2], term_locations[n][3] + 1)]
  /\ unique_locs = <<>>
  /\ grouped_definitions = EmptyMap /\ root_phrases = EmptyMap
  /\ word_defs = <<>> /\ err = "none"
  /\ FindIdle /\ WeaveIdle /\ AuxIdle

NextResolve == Resolve \/ Disambiguate

SpecResolve == InitResolve /\ [][NextResolve]_vars

\* ------------------------------------------------------ the weaving loop
\* Root texts whose printed tokens are all different, one per shape, so that
\* every piece of the woven text names the word it came from.
WordNames == <<"p", "q", "r", "s", "t", "u", "v", "w">>

WeaveTexts == {Unflatten(lens, WordNames) : lens \in Shapes}

\* what the resolver hands over: ascending by (line, start), pairwise disjoint
DisjointSortedLocs(ul) ==
  \A m, n \in 1..Len(ul) : m < n => (LocLt(ul[m], ul[n]) /\ ~Intersect(ul[m], ul[n]))

InitWeave ==
  /\ pc = "weave"
  /\ root_text \in WeaveTexts
  /\ unique_locs \in
       {ul \in SeqsUpTo({x \in LocsIn(root_text) : InText(root_text, x)}, 0, MaxLocs) :
          DisjointSortedLocs(ul)}
  /\ term_locations = unique_locs
  /\ terms = [n \in 1..Len(unique_locs) |->
                Slice(At(root_text, unique_locs[n][1]),
                      unique_locs[n][2], unique_locs[n][3] + 1)]
  /\ grouped_definitions = resolve_grouped_definitions(unique_locs, unique_locs)
  /\ root_phrases = label_unique_locs(root_text, unique_locs).root_phrases
  /\ word_defs = word_defs_of(unique_locs, root_phrases)
  /\ err = "none"
  /\ variant_maps \in VariantMapsOf(root_text)
  /\ line_no = 0 /\ k = 0 /\ footnotes = <<>> /\ rendered_root = <<>>
  /\ FindIdle /\ AuxIdle

NextWeave == WeaveLine

SpecWeave == InitWeave /\ [][NextWeave]_vars

\* ------------------------------- the disambiguator on longer rule texts
\* Rule texts of up to MaxLabelWords words, with any disjoint unique locations.
LabelShapes ==
  {lens \in SeqsUpTo(1..MaxLabelWords, 1, MaxLines) :
     SumTo(lens, Len(lens)) <= MaxLabelWords}

LabelTexts ==
  UNION {{Unflatten(lens, flat) : flat \in [1..SumTo(lens, Len(lens)) -> Keys]} :
           lens \in LabelShapes}

LabelLocs(root) ==
  {x \in {<<ln, s, e>> : ln \in 0..(Len(root) - 1), s \in 0..(MaxLabelWords - 1),
                          e \in 0..(MaxLabelWords - 1)} : InText(root, x)}

\* the locations of S in ascending order
RECURSIVE SortLocs(_)
SortLocs(S) ==
  IF S = {} THEN <<>>
  ELSE LET first == CHOOSE x \in S : \A y \in S : LocLeq(x, y)
       IN  <<first>> \o SortLocs(S \ {first})

InitLabel ==
  /\ pc = "label"
  /\ root_text \in LabelTexts
  /\ unique_locs \in
       {SortLocs(S) : S \in {T \in SUBSET LabelLocs(root_text) :
                               T # {} /\ \A x, y \in T : x # y => ~Intersect(x, y)}}
  /\ term_locations = unique_locs
  /\ terms = [n \in 1..Len(unique_locs) |->
                Slice(At(root_text, unique_locs[n][1]),
                      unique_locs[n][2], unique_locs[n][3] + 1)]
  /\ grouped_definitions = resolve_grouped_definitions(unique_locs, unique_locs)
  /\ root_phrases = EmptyMap /\ word_defs = <<>> /\ err = "none"
  /\ FindIdle /\ WeaveIdle /\ AuxIdle

NextLabel == Disambiguate

SpecLabel == InitLabel /\ [][NextLabel]_vars

\* ------------------------------------------------------- the file registry
InitFiles ==
  /\ pc = "write"
  /\ FilesIdle
  /\ FindIdle /\ UnitIdle /\ WeaveIdle /\ LateIdle
  /\ OverlapIdle /\ VariantsIdle /\ RunIdle

\* one call; an exception is caught nowhere and ends the run
WriteMdFile ==
  /\ pc = "write"
  /\ \E rule_file \in Folders \X Stems, end_scuid \in {"None", "s2"} :
       LET r == write_md_file(PREVIOUSLY_WRITTEN_FILES, written_files,
                              SCUID_SEGMENT_PATHS, rule_file, "s1", end_scuid)
       IN  /\ PREVIOUSLY_WRITTEN_FILES' = r.reserved
           /\ written_files' = r.files
           /\ SCUID_SEGMENT_PATHS' = r.paths
           /\ last_write' = [file |-> rule_file, outcome |-> r.outcome]
           /\ pc' = IF r.outcome = "ok" THEN "write" ELSE "aborted"
  /\ UNCHANGED <<findVars, lateVars, unitVars, weaveVars, overlapVars, variantVars, runVars>>

NextFiles == WriteMdFile

SpecFiles == InitFiles /\ [][NextFiles]_vars

\* -------------------------------------------------- the overlap predicate
\* locations (line, start, end) with start <= end
Locations ==
  {x \in (0..(MaxLines - 1)) \X (0..(MaxWords - 1)) \X (0..(MaxWords - 1)) :
     x[2] <= x[3]}

InitOverlap ==
  /\ pc = "overlap"
  /\ loc1 \in Locations /\ loc2 \in Locations
  /\ overlap = FALSE
  /\ FindIdle /\ UnitIdle /\ WeaveIdle /\ LateIdle
  /\ FilesIdle /\ VariantsIdle /\ RunIdle

CallOverlap ==
  /\ pc = "overlap"
  /\ overlap' = do_locs_overlap(loc1, loc2)
  /\ pc' = "overlapped"
  /\ UNCHANGED <<loc1, loc2, findVars, lateVars, unitVars, weaveVars, fileVars, variantVars,
                 runVars>>

NextOverlap == CallOverlap

SpecOverlap == InitOverlap /\ [][NextOverlap]_vars

\* ---------------------------------------------------- the variant map run
InitVariants ==
  /\ pc = "variants"
  /\ variant_line \in SeqsUpTo(Tokens, 1, MaxWords)
  /\ variant_text \in SeqsUpTo(SeqsUpTo(Keys, 0, MaxPhraseLen), 0, MaxReadings)
  /\ variant_map = EmptyMap
  /\ err = "none"
  /\ root_text = <<>> /\ terms = <<>> /\ term_locations = <<>>
  /\ unique_locs = <<>> /\ grouped_definitions = EmptyMap
  /\ root_phrases = EmptyMap /\ word_defs = <<>>
  /\ FindIdle /\ WeaveIdle /\ LateIdle
  /\ FilesIdle /\ OverlapIdle /\ RunIdle

BuildVariantMap ==
  /\ pc = "variants"
  /\ LET r == build_variant_map(variant_line, variant_text)
     IN  /\ variant_map' = r.map
         /\ err' = r.err
         /\ pc' = IF r.err = "none" THEN "mapped" ELSE "failed"
  /\ UNCHANGED <<variant_line, variant_text, findVars, lateVars, weaveVars, fileVars,
                 overlapVars, runVars, root_text, terms, term_locations, unique_locs,
                 grouped_definitions, root_phrases, word_defs>>

NextVariants == BuildVariantMap

SpecVariants == InitVariants /\ [][NextVariants]_vars

\* ------------------------------------------------------- the generation run
RuleInputs ==
  [cakka : {"none", "one", "many"}, nonoffenses : {"none", "one", "many"},
   anapatti : BOOLEAN,
   segments : SeqsUpTo([translation : BOOLEAN, root : BOOLEAN], 1, MaxSegments)]

InitRun ==
  /\ pc = "rule"
  /\ RunIdle
  /\ FindIdle /\ UnitIdle /\ WeaveIdle /\ LateIdle
  /\ FilesIdle /\ OverlapIdle /\ VariantsIdle

\* the driver takes the next rule and reads its data
StartRule ==
  /\ pc = "rule"
  /\ rule_no < MaxRules
  /\ vb_json' \in RuleInputs
  /\ rule_no' = rule_no + 1
  /\ rendered' = {}
  /\ pc' = "permutations"
  /\ UNCHANGED <<raised, findVars, lateVars, unitVars, weaveVars, fileVars, overlapVars,
                 variantVars>>

\* an exception that leaves a step is caught nowhere: the run ends
RenderPermutations ==
  /\ pc = "permutations"
  /\ LET r == render_permutations_for_rule(vb_json)
     IN  /\ raised' = raised \cup r.raised
         /\ rendered' = rendered \cup r.out
         /\ pc' = IF r.err = "none" THEN "nonoffenses" ELSE "aborted"
  /\ UNCHANGED <<vb_json, rule_no, findVars, lateVars, unitVars, weaveVars, fileVars,
                 overlapVars, variantVars>>

\* the non-offenses heading is looked up, then the section is rendered
RenderNonoffenses ==
  /\ pc = "nonoffenses"
  /\ LET e == lookup_error(vb_json.nonoffenses, TRUE)
         r == IF e # "none" THEN Outcome({<<"nonoffenses lookup", e>>}, {}, e)
              ELSE render_nonoffenses(vb_json)
     IN  /\ raised' = raised \cup r.raised
         /\ rendered' = rendered \cup r.out
         /\ pc' = IF r.err = "none" THEN "rule" ELSE "aborted"
  /\ UNCHANGED <<vb_json, rule_no, findVars, lateVars, unitVars, weaveVars, fileVars,
                 overlapVars, variantVars>>

NextRun == StartRule \/ RenderPermutations \/ RenderNonoffenses

SpecRun == InitRun /\ [][NextRun]_vars

\* ------------------------------------------- the translation of a definition
InitComments ==
  /\ pc = "translate"
  /\ definition_keys \in
       SeqsUpTo([translation : BOOLEAN, comment : BOOLEAN], 1, MaxDefinitionKeys)
  /\ rendered_translation = <<>>
  /\ ScanIdle
  /\ FindIdle /\ UnitIdle /\ WeaveIdle
  /\ FilesIdle /\ OverlapIdle /\ VariantsIdle /\ RunIdle

RenderTranslation ==
  /\ pc = "translate"
  /\ rendered_translation' = render_translation(definition_keys)
  /\ pc' = "translated"
  /\ UNCHANGED <<definition_keys, scanVars, findVars, unitVars, weaveVars, fileVars,
                 overlapVars, variantVars, runVars>>

NextComments == RenderTranslation

SpecComments == InitComments /\ [][NextComments]_vars

\* --------------------------------------------- the definition-section scan
\* keys_order of up to MaxKeys segments; a key may be listed more than once.
\* Keys are numbered in the order of their first appearance.
KeyOrders ==
  {o \in SeqsUpTo(1..MaxKeys, 1, MaxKeys) :
     \A i \in 1..Len(o) : \A v \in 1..(o[i] - 1) : \E j \in 1..(i - 1) : o[j] = v}

InitScan ==
  /\ pc = "enter"
  /\ keys_order \in KeyOrders
  /\ html_text \in [Range(keys_order) -> HtmlKinds]
  /\ key \in Range(keys_order)
  /\ key_spot = 0 /\ ret = <<>> /\ skipped = FALSE
  /\ CommentsIdle
  /\ FindIdle /\ UnitIdle /\ WeaveIdle
  /\ FilesIdle /\ OverlapIdle /\ VariantsIdle /\ RunIdle

\* the check that the key heads a definition section, and its position
EnterScan ==
  /\ pc = "enter"
  /\ \E is_definitions \in BOOLEAN :
       IF is_definitions
       THEN /\ key_spot' = index_of(keys_order, key)
            /\ pc' = "scan"
            /\ err' = err
       ELSE /\ key_spot' = key_spot
            /\ pc' = "raised"
            /\ err' = "Exception"
  /\ UNCHANGED <<keys_order, html_text, key, ret, skipped, commentVars, findVars,
                 weaveVars, fileVars, overlapVars, variantVars, runVars, root_text,
                 terms, term_locations, unique_locs, grouped_definitions,
                 root_phrases, word_defs>>

\* the test of the outer while loop and, when it holds, one pass of its body
ScanStep ==
  /\ pc = "scan"
  /\ IF Has(html_text[key], "</section>")
     THEN /\ pc' = "returned"
          /\ UNCHANGED <<key, key_spot, ret, skipped, err>>
     ELSE LET r == scan_iteration(keys_order, html_text, key, key_spot, ret)
          IN  /\ key' = r.key
              /\ key_spot' = r.key_spot
              /\ ret' = r.ret
              /\ skipped' = (skipped \/ r.skipped)
              /\ pc' = CASE r.status = "continue" -> "scan"
                          [] r.status = "break" -> "returned"
                          [] OTHER -> "raised"
              /\ err' = IF r.status \in {"continue", "break"} THEN err ELSE r.status
  /\ UNCHANGED <<keys_order, html_text, commentVars, findVars, weaveVars, fileVars,
                 overlapVars, variantVars, runVars, root_text, terms, term_locations,
                 unique_locs, grouped_definitions, root_phrases, word_defs>>

NextScan == EnterScan \/ ScanStep

SpecScan == InitScan /\ [][NextScan]_vars

\* the interpreter keeps running the loop
SpecScanLive == SpecScan /\ WF_vars(NextScan)

\* ================================================================== claims

\* the aligner has returned its locations
Aligned == pc \in {"resolve", "label", "labelled", "weave", "woven"} \/ (pc = "failed" /\ err = "IndexError")

\* the resolver has run
Resolved == pc \in {"label", "labelled", "weave", "woven"} \/ (pc = "failed" /\ err = "IndexError")

\* the labelling loop has run, to its end or to an exception
LabelRan == pc \in {"labelled", "weave", "woven"} \/ (pc = "failed" /\ err = "IndexError")

\* positions n of unique_locs whose normalized phrase text is that of position m
SameText(m) ==
  {n \in 1..Len(unique_locs) :
     root_phrase_at(root_text, unique_locs[n]) = root_phrase_at(root_text, unique_locs[m])}

\* C1: when a normalized phrase text P occurs k >= 2 times among the unique
\* locations, the labelling loop completes and the occurrences are labelled
\* P (1), P (2), ..., P (k) in discovery order.
C1_OrdinalLabels ==
  LabelRan =>
    /\ pc # "failed"
    /\ \A m \in 1..Len(unique_locs) :
         Cardinality(SameText(m)) >= 2 =>
           root_phrases[unique_locs[m]] =
             Label(root_phrase_at(root_text, unique_locs[m]),
                   Cardinality({n \in SameText(m) : n <= m}))

\* unique locations under which the n-th phrase is listed
GroupsOf(n) == {loc \in DOMAIN grouped_definitions : n \in Range(grouped_definitions[loc])}

\* C2: every located phrase is listed under exactly one unique location of
\* grouped_definitions.
C2_Partition ==
  Resolved => \A n \in 1..Len(term_locations) : Cardinality(GroupsOf(n)) = 1

\* C5: each phrase is located at its first occurrence at or after the cursor
\* left by the previous phrase; the locations are strictly increasing by
\* (line, start) and never overlap; [a],[a] on [a,x,a] gives (0,0,0), (0,2,2).
Occurs(phrase, ln, i) ==
  /\ ln \in 0..(Len(root_text) - 1)
  /\ MatchAt(sanitize_all(phrase), sanitize_all(At(root_text, ln)), i)

CursorBefore(n) ==
  IF n = 1 THEN <<0, 0>>
  ELSE <<term_locations[n - 1][1], term_locations[n - 1][3] + 1>>

PosLeq(p, q) == p[1] < q[1] \/ (p[1] = q[1] /\ p[2] <= q[2])

C5_AlignerCursor ==
  Aligned =>
    /\ Len(term_locations) = Len(terms)
    /\ \A n \in 1..Len(terms) :
         LET loc == term_locations[n]
         IN  /\ Occurs(terms[n], loc[1], loc[2])
             /\ loc[3] = loc[2] + Len(terms[n]) - 1
             /\ PosLeq(CursorBefore(n), <<loc[1], loc[2]>>)
             /\ \A ln \in 0..(Len(root_text) - 1) :
                  \A i \in 0..Len(At(root_text, ln)) :
                    ( /\ PosLeq(CursorBefore(n), <<ln, i>>)
                      /\ <<ln, i>> # <<loc[1], loc[2]>>
                      /\ PosLeq(<<ln, i>>, <<loc[1], loc[2]>>) )
                    => ~Occurs(terms[n], ln, i)
    /\ \A m, n \in 1..Len(term_locations) :
         m < n => /\ LocLt(term_locations[m], term_locations[n])
                  /\ ~Intersect(term_locations[m], term_locations[n])
    /\ (root_text = <<<<"a", "x", "a">>>> /\ terms = <<<<"a">>, <<"a">>>>)
         => term_locations = <<<<0, 0, 0>>, <<0, 2, 2>>>>

\* the same phrase twice, the second found further along the same line
C5_Witness ==
  /\ Aligned
  /\ Len(terms) = 2
  /\ sanitize_all(terms[1]) = sanitize_all(terms[2])
  /\ term_locations[1][1] = term_locations[2][1]
  /\ term_locations[2][2] > term_locations[1][3] + 1

\* C6: when the located occurrences do not overlap, resolving keeps one
\* unique location per phrase, in input order, each grouping that phrase only.
NoOverlaps ==
  \A m, n \in 1..Len(term_locations) :
    m # n => ~Intersect(term_locations[m], term_locations[n])

C6_AlignResolveNoMerge ==
  (Resolved /\ NoOverlaps) =>
    /\ unique_locs = term_locations
    /\ \A n \in 1..Len(term_locations) :
         grouped_definitions[term_locations[n]] = <<n>>

\* two phrases found side by side on one line, neither merged
C6_Witness ==
  /\ Resolved /\ NoOverlaps
  /\ Len(term_locations) = 2
  /\ term_locations[1][1] = term_locations[2][1]
  /\ term_locations[2][2] = term_locations[1][3] + 1
  /\ Len(unique_locs) = 2

\* C7 (as claimed): two consecutive phrases with overlapping locations give
\* one unique location, the earlier one, whose group contains both.
C7_MergeAnyPair ==
  Resolved =>
    \A n \in 1..(Len(term_locations) - 1) :
      Intersect(term_locations[n], term_locations[n + 1]) =>
        /\ term_locations[n] \in Range(unique_locs)
        /\ (term_locations[n + 1] \in Range(unique_locs)
              => term_locations[n + 1] = term_locations[n])
        /\ {n, n + 1} \subseteq Range(grouped_definitions[term_locations[n]])

\* C7 (amended): two consecutive phrases with overlapping locations, the
\* earlier of which is itself a unique location, give one unique location
\* for the pair, the earlier one, and its group contains both phrases.
C7_MergeIntoAccepted ==
  Resolved =>
    \A n \in 1..(Len(term_locations) - 1) :
      ( /\ Intersect(term_locations[n], term_locations[n + 1])
        /\ term_locations[n] \in Range(unique_locs) ) =>
        /\ (term_locations[n + 1] \in Range(unique_locs)
              => term_locations[n + 1] = term_locations[n])
        /\ {n, n + 1} \subseteq Range(grouped_definitions[term_locations[n]])

\* two different overlapping locations folded into one entry
C7_Witness ==
  /\ Resolved
  /\ Len(term_locations) = 2
  /\ term_locations[1] # term_locations[2]
  /\ Intersect(term_locations[1], term_locations[2])
  /\ unique_locs = <<term_locations[1]>>
  /\ grouped_definitions[term_locations[1]] = <<1, 2>>

\* C8: the unique locations are pairwise non-overlapping and ascending by
\* (line, start).
C8_UniqueLocsDisjointSorted ==
  Resolved =>
    \A m, n \in 1..Len(unique_locs) :
      m < n => /\ ~Intersect(unique_locs[m], unique_locs[n])
               /\ LocLt(unique_locs[m], unique_locs[n])

\* a merge happened and a later location on the same line was kept
C8_Witness ==
  /\ Resolved
  /\ Len(term_locations) = 3
  /\ Len(unique_locs) = 2
  /\ unique_locs[1][1] = unique_locs[2][1]
  /\ Intersect(term_locations[2], unique_locs[1])
  /\ Intersect(term_locations[2], unique_locs[2])

\* C9: when a match exists at a position >= start, find_sub_list returns the
\* smallest such index, and start <= index <= len(l) - len(sl).
MatchExists == \E i \in start..Len(l) : MatchAt(sl, l, i)

C9_FindFirstMatch ==
  (pc = "found" /\ Len(sl) > 0 /\ MatchExists) =>
    /\ result.kind = "return"
    /\ start <= result.value
    /\ result.value <= Len(l) - Len(sl)
    /\ MatchAt(sl, l, result.value)
    /\ \A i \in start..(result.value - 1) : ~MatchAt(sl, l, i)

\* a two-token needle found past a position where only its first token matches
C9_Witness ==
  /\ pc = "found" /\ Len(sl) = 2
  /\ result.kind = "return"
  /\ \E i \in start..(result.value - 1) : At(l, i) = At(sl, 0)

\* C10: when no match exists at a position >= start, find_sub_list fails with
\* the not-found error (ValueError), whatever the haystack's length.
C10_NotFoundIsValueError ==
  (pc = "found" /\ Len(sl) > 0 /\ ~MatchExists) => result.kind = "ValueError"

\* the footnote markers of the woven text, in emission order
Markers == SelectSeq(rendered_root, LAMBDA x : x.t \in {"fn", "sup"})

\* C3: the footnote numbers emitted while weaving are exactly 1, 2, 3, ... in
\* emission order, whichever form the marker has.
C3_FootnoteNumbers ==
  pc \in {"weave", "woven"} =>
    /\ Len(Markers) = Len(footnotes)
    /\ \A n \in 1..Len(Markers) : Markers[n].n = n

\* three markers, one of them a superscript inside a link, one after a link
C3_Witness ==
  /\ pc = "woven"
  /\ Len(Markers) >= 3
  /\ \E n \in 1..Len(Markers) : Markers[n].t = "sup"
  /\ \E p \in 2..Len(rendered_root) :
       rendered_root[p].t = "fn" /\ rendered_root[p - 1].t = "close"

\* C4: when the word at a location's end index carries a variant, the woven
\* text has the word, then the link close with the location's destination,
\* then the footnote marker of that variant, with nothing in between.
C4_EndTokenOrder ==
  pc = "woven" =>
    \A n \in 1..Len(word_defs) :
      LET loc == word_defs[n].loc
      IN  loc[3] \in At(variant_maps, loc[1]) =>
            \E p \in 1..(Len(rendered_root) - 2) :
              /\ rendered_root[p] = Word(At(At(root_text, loc[1]), loc[3]))
              /\ rendered_root[p + 1] = LinkClose(word_defs[n].path)
              /\ rendered_root[p + 2].t \in {"fn", "sup"}
              /\ footnotes[rendered_root[p + 2].n] = <<loc[1], loc[3]>>

\* a one-word location with a variant, and a longer one whose end has a variant
C4_Witness ==
  /\ pc = "woven"
  /\ \E n \in 1..Len(word_defs) :
       /\ word_defs[n].loc[2] = word_defs[n].loc[3]
       /\ word_defs[n].loc[3] \in At(variant_maps, word_defs[n].loc[1])
  /\ \E n \in 1..Len(word_defs) :
       /\ word_defs[n].loc[2] < word_defs[n].loc[3]
       /\ word_defs[n].loc[3] \in At(variant_maps, word_defs[n].loc[1])

\* the pieces woven for line i (0-based): those after its line start, up to
\* the next line start
RECURSIVE LinePieces(_, _, _, _)
LinePieces(out, p, i, acc) ==
  IF p > Len(out) THEN acc
  ELSE IF out[p].t = "nl"
       THEN (IF i < 0 THEN acc ELSE LinePieces(out, p + 1, i - 1, acc))
       ELSE LinePieces(out, p + 1, i, IF i < 0 THEN Append(acc, out[p]) ELSE acc)

WovenLine(i) == LinePieces(rendered_root, 1, i, <<>>)

\* the woven text with every inserted marker deleted: words and spaces stay
Unmarked(pieces) == SelectSeq(pieces, LAMBDA x : x.t \in {"word", "sp"})

\* str.split(' ') of the text the pieces spell: words that touch run together
RECURSIVE SplitOnSpace(_, _, _, _)
SplitOnSpace(pieces, p, cur, acc) ==
  IF p > Len(pieces) THEN Append(acc, cur)
  ELSE IF pieces[p].t = "sp" THEN SplitOnSpace(pieces, p + 1, "", Append(acc, cur))
  ELSE SplitOnSpace(pieces, p + 1, cur \o pieces[p].w, acc)

\* C11: deleting every inserted marker from the woven text of a line and
\* splitting on single spaces gives back that line's printed tokens, in order.
C11_RoundTrip ==
  \A i \in 0..(line_no - 1) :
    pc \in {"weave", "woven"} =>
      SplitOnSpace(Unmarked(WovenLine(i)), 1, "", <<>>) = At(root_text, i)

\* two lines woven, the first holding a link and a footnote marker
C11_Witness ==
  /\ pc = "woven" /\ line_no = 2
  /\ \E p \in 1..Len(WovenLine(0)) : WovenLine(0)[p].t = "close"
  /\ \E p \in 1..Len(WovenLine(0)) : WovenLine(0)[p].t \in {"fn", "sup"}
  /\ Len(At(root_text, 0)) >= 2

\* C12: a unique location whose normalized phrase text occurs exactly once
\* among the unique locations ends with the bare phrase as its label, whatever
\* collisions occur among the other phrases; a first occurrence carries
\* the suffix (1) only when a second occurrence of its text exists.
C12_BareLabel ==
  LabelRan =>
    \A m \in 1..Len(unique_locs) :
      /\ Cardinality(SameText(m)) = 1 =>
           /\ unique_locs[m] \in DOMAIN root_phrases
           /\ root_phrases[unique_locs[m]] =
                Label(root_phrase_at(root_text, unique_locs[m]), 0)
      /\ ( /\ unique_locs[m] \in DOMAIN root_phrases
           /\ root_phrases[unique_locs[m]].n = 1 ) => Cardinality(SameText(m)) >= 2

\* the cursor after the locations locs: the start of the text, or just past
\* the last of them
CursorAfter(locs) ==
  IF locs = <<>> THEN <<0, 0>> ELSE <<locs[Len(locs)][1], locs[Len(locs)][3] + 1>>

\* phrase occurs at <<ln, i>>, at or after the cursor cur
OccursFrom(phrase, cur, ln, i) == Occurs(phrase, ln, i) /\ PosLeq(cur, <<ln, i>>)

NoOccurrenceFrom(phrase, cur) ==
  \A ln \in 0..(Len(root_text) - 1) :
    \A i \in 0..Len(At(root_text, ln)) : ~OccursFrom(phrase, cur, ln, i)

\* locs are the first occurrences of the first Len(locs) phrases, each
\* searched from the cursor the one before it left
FirstOccurrences(locs) ==
  \A n \in 1..Len(locs) :
    LET cur == CursorAfter(SubSeq(locs, 1, n - 1))
        loc == locs[n]
    IN  /\ OccursFrom(terms[n], cur, loc[1], loc[2])
        /\ loc[3] = loc[2] + Len(terms[n]) - 1
        /\ \A ln \in 0..(Len(root_text) - 1) :
             \A i \in 0..Len(At(root_text, ln)) :
               (OccursFrom(terms[n], cur, ln, i) /\ <<ln, i>> # <<loc[1], loc[2]>>)
                 => PosLeq(<<loc[1], loc[2]>>, <<ln, i>>)

\* some phrase has no occurrence at or after the cursor its predecessors left
SomePhraseExhausted ==
  \E locs \in SeqsUpTo({x \in LocsIn(root_text) : InText(root_text, x)},
                        0, Len(terms) - 1) :
    /\ FirstOccurrences(locs)
    /\ NoOccurrenceFrom(terms[Len(locs) + 1], CursorAfter(locs))

\* C13: aligning either returns exactly one location per phrase, in input
\* order, each holding the phrase's tokens, or fails with the alignment error;
\* it fails exactly when some phrase has no occurrence at or after the cursor,
\* and then returns nothing.
C13_AlignerTotality ==
  pc # "align" =>
    IF SomePhraseExhausted
    THEN pc = "failed" /\ err = "AlignmentError" /\ term_locations = <<>>
    ELSE /\ Aligned
         /\ Len(term_locations) = Len(terms)
         /\ \A n \in 1..Len(terms) :
              /\ InText(root_text, term_locations[n])
              /\ root_phrase_at(root_text, term_locations[n]) = sanitize_all(terms[n])

\* the second phrase occurs in the text, but only before the cursor
C13_Witness ==
  /\ pc = "failed" /\ err = "AlignmentError"
  /\ Len(terms) = 2
  /\ ~NoOccurrenceFrom(terms[1], <<0, 0>>)
  /\ ~NoOccurrenceFrom(terms[2], <<0, 0>>)

\* C14: a write_md_file call whose lower-cased stem is already reserved fails,
\* and a failed call leaves the reserved names, the files written and the
\* identifier-to-path records as they were; any other call succeeds.
C14_CollisionChangesNothing ==
  [][ /\ (Lower(last_write'.file[2]) \in PREVIOUSLY_WRITTEN_FILES)
          <=> (last_write'.outcome = "Exception")
      /\ (last_write'.outcome = "Exception")
          => UNCHANGED <<PREVIOUSLY_WRITTEN_FILES, written_files, SCUID_SEGMENT_PATHS>>
    ]_vars

\* a call failed on a stem that differs only by case from one written to
\* another folder, after two files were written
C14_Witness ==
  /\ last_write.outcome = "Exception"
  /\ Len(written_files) = 2 /\ Len(SCUID_SEGMENT_PATHS) = 2
  /\ \A n \in 1..Len(written_files) : written_files[n] # last_write.file
  /\ \E n \in 1..Len(written_files) :
       /\ written_files[n][2] # last_write.file[2]
       /\ written_files[n][1] # last_write.file[1]
       /\ Lower(written_files[n][2]) = Lower(last_write.file[2])

\* how many pieces of kind t the first p pieces of the woven text hold
CountTo(t, p) == Cardinality({q \in 1..p : rendered_root[q].t = t})

\* links open after the first p pieces
Depth(p) == CountTo("open", p) - CountTo("close", p)

\* position in the woven text of word j of line i; the words of the weaving
\* texts are all different
WordAt(i, j) ==
  CHOOSE p \in 1..Len(rendered_root) : rendered_root[p] = Word(At(At(root_text, i), j))

\* C15: for sorted non-overlapping locations inside the root text, each
\* location gets exactly one link open immediately before its start word and
\* one link close, with its own destination, immediately after its end word,
\* on its line; at most one link is open at any moment, none at the end of a
\* line; words outside every location carry no link marker; and every
\* location has been consumed when the root text ends.
C15_LinkSpans ==
  pc = "woven" =>
    /\ k = Len(word_defs)
    /\ CountTo("open", Len(rendered_root)) = Len(word_defs)
    /\ CountTo("close", Len(rendered_root)) = Len(word_defs)
    /\ \A n \in 1..Len(word_defs) :
         LET loc == word_defs[n].loc
             ps == WordAt(loc[1], loc[2])
             pe == WordAt(loc[1], loc[3])
         IN  /\ rendered_root[ps - 1] = LinkOpen
             /\ rendered_root[pe + 1] = LinkClose(word_defs[n].path)
             /\ \A q \in ps..pe : rendered_root[q].t # "nl"
    /\ \A p \in 0..Len(rendered_root) : Depth(p) \in {0, 1}
    /\ Depth(Len(rendered_root)) = 0
    /\ \A p \in 1..Len(rendered_root) : rendered_root[p].t = "nl" => Depth(p) = 0
    /\ \A i \in 0..(Len(root_text) - 1) :
         \A j \in 0..(Len(At(root_text, i)) - 1) :
           LET p == WordAt(i, j)
           IN  /\ (\A n \in 1..Len(word_defs) : word_defs[n].loc[1] = i
                                                 => word_defs[n].loc[2] # j)
                    => rendered_root[p - 1].t # "open"
               /\ ( /\ p < Len(rendered_root)
                    /\ \A n \in 1..Len(word_defs) : word_defs[n].loc[1] = i
                                                      => word_defs[n].loc[3] # j )
                    => rendered_root[p + 1].t # "close"

\* a two-word location with the next location starting right after it
C15_Witness ==
  /\ pc = "woven"
  /\ Len(word_defs) = 2
  /\ word_defs[1].loc[1] = word_defs[2].loc[1]
  /\ word_defs[1].loc[3] > word_defs[1].loc[2]
  /\ word_defs[2].loc[2] = word_defs[1].loc[3] + 1

\* word j of line i lies in a location, before that location's end word
InsideLink(i, j) ==
  \E n \in 1..Len(word_defs) :
    /\ word_defs[n].loc[1] = i
    /\ word_defs[n].loc[2] <= j /\ j < word_defs[n].loc[3]

\* C17: the marker of a variant is the inline superscript exactly when its
\* word lies in a location of its line at an index from the location's start
\* up to, not including, its end; otherwise it is the standard footnote
\* marker.
C17_MarkerStyle ==
  pc \in {"weave", "woven"} =>
    /\ Len(Markers) = Len(footnotes)
    /\ \A n \in 1..Len(Markers) :
         /\ Markers[n].t = "sup" <=> InsideLink(footnotes[n][1], footnotes[n][2])
         /\ Markers[n].t = "fn" <=> ~InsideLink(footnotes[n][1], footnotes[n][2])

\* a superscript at a link's start word, a footnote at its end word and a
\* footnote at a word outside it
C17_Witness ==
  /\ pc = "woven"
  /\ Len(word_defs) = 1
  /\ LET loc == word_defs[1].loc
     IN  \E a, b, c \in 1..Len(Markers) :
           /\ footnotes[a] = <<loc[1], loc[2]>> /\ Markers[a].t = "sup"
           /\ footnotes[b] = <<loc[1], loc[3]>> /\ Markers[b].t = "fn"
           /\ ~Intersect(<<footnotes[c][1], footnotes[c][2], footnotes[c][2]>>, loc)
           /\ Markers[c].t = "fn"

\* C18: for locations with start <= end, do_locs_overlap is true exactly when
\* the two are on the same line and their inclusive index ranges share an
\* index; it gives the same answer with the arguments exchanged, and true for
\* a location with itself.
C18_OverlapPredicate ==
  pc = "overlapped" =>
    /\ overlap <=> Intersect(loc1, loc2)
    /\ do_locs_overlap(loc2, loc1) = overlap
    /\ do_locs_overlap(loc1, loc1) /\ do_locs_overlap(loc2, loc2)

\* the first argument starts later and the ranges share their last index only
C18_Witness ==
  /\ pc = "overlapped" /\ overlap
  /\ loc1[2] > loc2[2]
  /\ loc1[2] = loc2[3]
  /\ loc1[3] > loc2[3]

\* the label the m-th unique location has when all relabelling is done: the
\* bare phrase when its text occurs once, its ordinal among the occurrences
\* of its text otherwise
FinalLabel(m) ==
  Label(root_phrase_at(root_text, unique_locs[m]),
        IF Cardinality(SameText(m)) = 1 THEN 0
        ELSE Cardinality({n \in SameText(m) : n <= m}))

\* the link closes of the woven text, in emission order
Closes == SelectSeq(rendered_root, LAMBDA x : x.t = "close")

\* C19: the steps of a rendering unit run in the order align, resolve,
\* disambiguate, weave: each result is assigned once, from the finished result
\* of the step before it.  Every word-definition path and every link
\* destination woven into the rule text is the location's final label.
C19_PipelineOrder ==
  /\ [][ /\ term_locations' # term_locations => pc = "align"
         /\ unique_locs' # unique_locs =>
              pc = "resolve" /\ unique_locs' = resolve_unique_locs(term_locations)
         /\ root_phrases' # root_phrases =>
              pc = "label" /\ DOMAIN root_phrases' = Range(unique_locs)
         /\ word_defs' # word_defs =>
              /\ pc = "labelled"
              /\ Len(word_defs') = Len(unique_locs)
              /\ \A n \in 1..Len(unique_locs) :
                   /\ word_defs'[n].loc = unique_locs[n]
                   /\ word_defs'[n].path = root_phrases[unique_locs[n]]
         /\ rendered_root' # rendered_root =>
              pc = "weave" /\ UNCHANGED <<root_phrases, word_defs>>
       ]_vars
  /\ [](pc \in {"weave", "woven"} =>
          /\ \A n \in 1..Len(word_defs) : word_defs[n].path = FinalLabel(n)
          /\ \A n \in 1..Len(Closes) : Closes[n].path = FinalLabel(n))

\* two occurrences of one phrase text woven: the first link leads to the
\* relabelled (1) path
C19_Witness ==
  /\ pc = "woven"
  /\ Len(Closes) = 2
  /\ Closes[1].path.n = 1 /\ Closes[2].path.n = 2
  /\ Closes[1].path.text = Closes[2].path.text

\* every segment of the variant text is a reading whose original form occurs
\* in the line
AllReadingsOccur ==
  /\ variant_text # <<>>
  /\ \A n \in 1..Len(variant_text) :
       /\ variant_text[n] # ContinuationSegment
       /\ \E i \in 0..Len(variant_line) :
            MatchAt(sanitize_all(variant_text[n]), sanitize_all(variant_line), i)

\* C20: for a variant text of n readings whose original forms all occur in
\* the line, build_variant_map returns n entries, one per reading, each keyed
\* by an index where that reading's original form starts; no reading is
\* dropped or overwritten by another.
C20_VariantMapComplete ==
  (pc # "variants" /\ AllReadingsOccur) =>
    /\ pc = "mapped"
    /\ Cardinality(DOMAIN variant_map) = Len(variant_text)
    /\ \A n \in 1..Len(variant_text) :
         \E i \in DOMAIN variant_map :
           /\ variant_map[i].n = n
           /\ MatchAt(sanitize_all(variant_text[n]), sanitize_all(variant_line), i)

\* C16 (as claimed): every error raised while rendering a unit propagates and
\* aborts the run; none is caught so that rendering continues.
C16_EveryErrorAborts == raised # {} => pc = "aborted"

\* the exceptions that are caught where they are raised
CaughtErrors ==
  {<<"cakka lookup", "ValueError">>, <<"segment translation", "KeyError">>,
   <<"segment root", "KeyError">>}

\* C16 (amended): an error aborts the run unless it is the not-found error of
\* the permutations-section lookup or a missing-segment error inside the
\* non-offenses section; after those the rule goes on, without the
\* permutations or without that half of the segment.
C16_AbortsExceptCaught ==
  /\ pc = "aborted" <=> \E e \in raised : e \notin CaughtErrors
  /\ (pc \in {"nonoffenses", "rule"} /\ rule_no > 0) =>
       /\ vb_json.cakka = "none" =>
            <<"cakka lookup", "ValueError">> \in raised /\ <<0, "permutations">> \notin rendered
       /\ vb_json.cakka # "none" => <<0, "permutations">> \in rendered
  /\ (pc = "rule" /\ rule_no > 0) =>
       /\ <<0, "nonoffenses">> \in rendered
       /\ \A n \in 1..Len(vb_json.segments) :
            /\ <<n, "translation">> \in rendered <=> vb_json.segments[n].translation
            /\ <<n, "root">> \in rendered <=> vb_json.segments[n].root
            /\ ~vb_json.segments[n].translation
                 => <<"segment translation", "KeyError">> \in raised
            /\ ~vb_json.segments[n].root => <<"segment root", "KeyError">> \in raised

\* a second rule is being rendered after all three caught errors were raised
C16_Witness ==
  /\ rule_no = 2 /\ pc = "nonoffenses"
  /\ raised = CaughtErrors

\* C21: whichever segments of a definition have a translation, a comment keyed
\* to a segment is footnoted on that segment's own translation line, and every
\* comment of a segment that has a translation is emitted exactly once.
C21_CommentOnOwnLine ==
  pc = "translated" =>
    /\ \A n \in 1..Len(rendered_translation) :
         rendered_translation[n].note \in {0, rendered_translation[n].line}
    /\ \A m \in 1..Len(definition_keys) :
         (definition_keys[m].translation /\ definition_keys[m].comment) =>
           Cardinality({n \in 1..Len(rendered_translation) :
                          rendered_translation[n].note = m}) = 1

ScanEnded == pc \in {"returned", "raised"}

DistinctKeys == \A i, j \in 1..Len(keys_order) : keys_order[i] = keys_order[j] => i = j

====
